---- MODULE Spec2Model ----
(***************************************************************************)
(* Model of experiment/simulator.py: the read-extraction loop of           *)
(* simulate_reads_with_depth, the shuffle that ends it, and the sort by    *)
(* custom_sort that precedes the GFA output.                               *)
(*                                                                         *)
(* Python strings are sequences of one-character strings.  A read is the   *)
(* Python tuple (identifier, start index, subsequence), here the TLA+      *)
(* tuple <<id, start, read>>, so t[0] of the source is t[1] here.          *)
(***************************************************************************)
EXTENDS Integers, Sequences, FiniteSets, TLC

VARIABLES
    input_string,      \* argument of simulate_reads_with_depth
    read_length_arg,   \* value of the read_length argument at the call
    read_length,       \* the read_length variable, overwritten by each draw
    depth,             \* argument
    length_variation,  \* argument
    reads,             \* local list of the function
    read_id,           \* local counter
    current_index,     \* local cursor
    raised,            \* exception that ended the call, "none" if none
    simulated_reads,   \* module level: the list the call returned
    sorted_reads,      \* module level: reads = sorted(simulated_reads, ...)
    pc                 \* "loop", "shuffle", "returned", "sorted", "raised"

vars == <<input_string, read_length_arg, read_length, depth, length_variation,
          reads, read_id, current_index, raised, simulated_reads,
          sorted_reads, pc>>

(***************************************************************************)
(* Bounds of the model.                                                    *)
(***************************************************************************)
MaxSeqLen == 2        \* longest input_string of Spec
MaxReadLength == 5    \* largest read_length argument
MaxDepth == 4         \* largest depth argument
MaxVariation == 3     \* largest length_variation argument
MaxNegDrawn == 1      \* draws below -MaxNegDrawn are not followed
MaxBack == 1          \* the cursor is not followed below -MaxBack
MaxReads == 2         \* the loop is not followed past this many reads
MaxSwaps == 1         \* exchanges of one shuffle that are followed
MaxSortReads == 11    \* longest read list of SortSpec

\* draws above this length are not followed
MaxDrawn == MaxReadLength + 1

\* the bases create_random_read chooses from
Bases == <<"A", "T", "G", "C">>

(***************************************************************************)
(* Python primitives used by the script.                                   *)
(***************************************************************************)
Min(a, b) == IF a < b THEN a ELSE b
Max(a, b) == IF a > b THEN a ELSE b

\* a // b of Python for b > 0: the floor of the quotient
FloorDiv(a, b) == IF a >= 0 THEN a \div b ELSE -(((-a) + b - 1) \div b)

\* s[a:b] of Python: negative indices count from the end, then both are
\* clamped to 0..len(s)
SliceIndex(i, n) == IF i < 0 THEN Max(i + n, 0) ELSE Min(i, n)

Slice(s, a, b) ==
    LET lo == SliceIndex(a, Len(s))
        hi == SliceIndex(b, Len(s))
    IN  IF lo >= hi THEN << >> ELSE SubSeq(s, lo + 1, hi)

\* str(n) of Python for an integer n
DigitChar == <<"0", "1", "2", "3", "4", "5", "6", "7", "8", "9">>

RECURSIVE StrNat(_)
StrNat(n) == IF n < 10 THEN <<DigitChar[n + 1]>>
             ELSE StrNat(n \div 10) \o <<DigitChar[(n % 10) + 1]>>

Str(n) == IF n < 0 THEN <<"-">> \o StrNat(-n) ELSE StrNat(n)

\* code point of the characters an identifier is made of
Ord(c) ==
    CASE c = "-" -> 45
      [] c = "S" -> 83
      [] c = "_" -> 95
      [] OTHER   -> 47 + (CHOOSE d \in 1..10 : DigitChar[d] = c)

\* s < t on Python strings: lexicographic by code point
StrLess(s, t) ==
    \E i \in 1..(Min(Len(s), Len(t)) + 1) :
        /\ \A j \in 1..(i - 1) : s[j] = t[j]
        /\ \/ i > Len(s) /\ i <= Len(t)
           \/ i <= Len(s) /\ i <= Len(t) /\ Ord(s[i]) < Ord(t[i])

\* k1 < k2 on the (int, str) tuples custom_sort returns
KeyLess(k1, k2) ==
    \/ k1[1] < k2[1]
    \/ k1[1] = k2[1] /\ StrLess(k1[2], k2[2])

\* random.randint(a, b): any integer of the closed interval
randint(a, b) == a..b

(***************************************************************************)
(* simulate_reads_with_depth                                               *)
(***************************************************************************)
total_length == Len(input_string)

\* the lengths the draw at the head of the loop body can give
DrawnLengths_FromArgument ==
    randint(read_length_arg - length_variation,
            read_length_arg + length_variation)

DrawnLengths ==
    randint(read_length - length_variation, read_length + length_variation)

\* step_size = read_length // depth
StepSize(length, d) == FloorDiv(length, d)

\* the condition of the if that skips a read
Overruns_OffByOne(index, length, total) == index + length > total + 1

Overruns(index, length, total) == index + length > total

\* "S_" + str(read_id)
ReadName_ZeroBased(id) == <<"S", "_">> \o Str(id - 1)

ReadName(id) == <<"S", "_">> \o Str(id)

\* the tuple appended to reads
MakeRead(id, index, read) == <<ReadName(id), index, read>>

\* the pass of the loop body that draws this length stays within the bounds
Followed(drawn) ==
    /\ drawn \in (-MaxNegDrawn)..MaxDrawn
    /\ depth >= 1 =>
          /\ current_index + StepSize(drawn, depth) >= -MaxBack
          /\ Overruns(current_index, drawn, total_length)
                \/ Len(reads) < MaxReads

\* one pass through the body of the while loop
Iterate ==
    /\ pc = "loop"
    /\ current_index < total_length
    /\ \E drawn \in DrawnLengths :
        /\ Followed(drawn)
        /\ read_length' = drawn
        /\ IF depth = 0
           THEN /\ raised' = "ZeroDivisionError"
                /\ pc' = "raised"
                /\ UNCHANGED <<reads, read_id, current_index>>
           ELSE LET step_size == StepSize(drawn, depth) IN
                /\ IF Overruns(current_index, drawn, total_length)
                   THEN UNCHANGED <<reads, read_id>>
                   ELSE /\ reads' = Append(reads,
                              MakeRead(read_id, current_index,
                                  Slice(input_string, current_index,
                                        current_index + drawn)))
                        /\ read_id' = read_id + 1
                /\ current_index' = current_index + step_size
                /\ UNCHANGED <<raised, pc>>
    /\ UNCHANGED <<input_string, read_length_arg, depth, length_variation,
                   simulated_reads, sorted_reads>>

\* the while condition is false
ExitLoop ==
    /\ pc = "loop"
    /\ current_index >= total_length
    /\ pc' = "shuffle"
    /\ UNCHANGED <<input_string, read_length_arg, read_length, depth,
                   length_variation, reads, read_id, current_index, raised,
                   simulated_reads, sorted_reads>>

\* x[i], x[j] = x[j], x[i]
Swap(x, i, j) == [x EXCEPT ![i] = x[j], ![j] = x[i]]

\* random.shuffle(x): for i from the last position down to the second,
\* exchange x[i] with x[j] for a random j <= i; k bounds the exchanges with
\* j < i that are followed
RECURSIVE ShuffleFrom(_, _, _)
ShuffleFrom(x, i, k) ==
    IF i < 2 THEN {x}
    ELSE UNION { ShuffleFrom(Swap(x, i, j), i - 1, IF j = i THEN k ELSE k - 1)
                 : j \in (IF k > 0 THEN 1..i ELSE {i}) }

Shuffle(x) == ShuffleFrom(x, Len(x), MaxSwaps)

\* random.shuffle(reads); return reads
ShuffleReturn_DropsFirst ==
    /\ pc = "shuffle"
    /\ \E s \in Shuffle(reads) :
        /\ reads' = s
        /\ simulated_reads' = IF s = << >> THEN s ELSE Tail(s)
    /\ pc' = "returned"
    /\ UNCHANGED <<input_string, read_length_arg, read_length, depth,
                   length_variation, read_id, current_index, raised,
                   sorted_reads>>

ShuffleReturn ==
    /\ pc = "shuffle"
    /\ \E s \in Shuffle(reads) :
        /\ reads' = s
        /\ simulated_reads' = s
    /\ pc' = "returned"
    /\ UNCHANGED <<input_string, read_length_arg, read_length, depth,
                   length_variation, read_id, current_index, raised,
                   sorted_reads>>

(***************************************************************************)
(* Module level: the sort before the GFA output                            *)
(***************************************************************************)
custom_sort_ContentOnly(t) == <<0, t[1]>>

custom_sort(t) == <<Len(t[1]), t[1]>>

\* x placed behind every element of the sorted list s whose key is not
\* greater: sorted() is stable
RECURSIVE InsertByKey(_, _)
InsertByKey(x, s) ==
    IF s = << >> THEN <<x>>
    ELSE IF KeyLess(custom_sort(x), custom_sort(s[Len(s)]))
         THEN Append(InsertByKey(x, SubSeq(s, 1, Len(s) - 1)), s[Len(s)])
         ELSE Append(s, x)

\* sorted(l, key=custom_sort)
RECURSIVE Sorted(_)
Sorted(l) ==
    IF l = << >> THEN << >>
    ELSE InsertByKey(l[Len(l)], Sorted(SubSeq(l, 1, Len(l) - 1)))

\* the pairs of reads the L lines of the GFA file join
GfaLinks(l) == [i \in 1..(Len(l) - 1) |-> <<l[i], l[i + 1]>>]

\* reads = sorted(simulated_reads, key=custom_sort)
SortForGfa ==
    /\ pc = "returned"
    /\ sorted_reads' = Sorted(simulated_reads)
    /\ pc' = "sorted"
    /\ UNCHANGED <<input_string, read_length_arg, read_length, depth,
                   length_variation, reads, read_id, current_index, raised,
                   simulated_reads>>

(***************************************************************************)
(* Specifications                                                          *)
(***************************************************************************)
\* a sequence of n bases in which neighbouring positions differ, so that the
\* content of a short read tells where it was cut
Sequence(n) == [i \in 1..n |-> Bases[((i - 1) % Len(Bases)) + 1]]

\* the state at the first test of the while condition
Init ==
    /\ input_string \in { Sequence(n) : n \in 0..MaxSeqLen }
    /\ read_length_arg \in 1..MaxReadLength
    /\ read_length = read_length_arg
    /\ depth \in 0..MaxDepth
    /\ length_variation \in 0..MaxVariation
    /\ reads = << >>
    /\ read_id = 1
    /\ current_index = 0
    /\ raised = "none"
    /\ simulated_reads = << >>
    /\ sorted_reads = << >>
    /\ pc = "loop"

Next == Iterate \/ ExitLoop \/ ShuffleReturn \/ SortForGfa

Spec == Init /\ [][Next]_vars

\* the interpreter always takes the next step of the script
FairSpec == Init /\ [][Next]_vars /\ WF_vars(Next)

\* the end of the loop of a run over a sequence of n bases with read_length 1,
\* length_variation 0 and depth 1: one read of one base at every position
InitSort ==
    \E n \in 0..MaxSortReads :
        /\ input_string = Sequence(n)
        /\ read_length_arg = 1
        /\ read_length = 1
        /\ depth = 1
        /\ length_variation = 0
        /\ reads = [k \in 1..n |-> MakeRead(k, k - 1, <<Sequence(n)[k]>>)]
        /\ read_id = n + 1
        /\ current_index = n
        /\ raised = "none"
        /\ simulated_reads = << >>
        /\ sorted_reads = << >>
        /\ pc = "shuffle"

NextSort == ShuffleReturn \/ SortForGfa

SortSpec == InitSort /\ [][NextSort]_vars

(***************************************************************************)
(* Properties                                                              *)
(***************************************************************************)
InReads(l) == { l[i] : i \in 1..Len(l) }

Count(l, r) == Cardinality({ i \in 1..Len(l) : l[i] = r })

\* the two lists hold the same tuples the same number of times
SameReads(a, b) ==
    /\ Len(a) = Len(b)
    /\ \A r \in InReads(a) \cup InReads(b) : Count(a, r) = Count(b, r)

\* the loop is still running and no draw within the bounds continues it
BeyondBounds ==
    /\ pc = "loop"
    /\ current_index < total_length
    /\ \A drawn \in DrawnLengths : ~Followed(drawn)

\* C1: every emitted read ends at or before the end of the sequence, and a
\* pass of the loop whose drawn length overruns the end appends no read.
C1_ReadsEndInsideSequence ==
    /\ [](\A r \in InReads(reads) : r[2] + Len(r[3]) <= total_length)
    /\ [][(pc = "loop" /\ current_index + read_length' > total_length)
             => reads' = reads]_vars

\* a skipping pass came before the first read, which ends exactly at the end
\* of the sequence
C1_Witness ==
    /\ pc = "shuffle"
    /\ reads /= << >>
    /\ reads[1][2] > 0
    /\ Len(reads[1][3]) > 0
    /\ reads[1][2] + Len(reads[1][3]) = total_length

\* C2: every emitted read equals the slice of the sequence that starts at
\* its recorded offset and has its length.
C2_ReadIsSliceAtOffset ==
    \A r \in InReads(reads) :
        r[3] = Slice(input_string, r[2], r[2] + Len(r[3]))

\* C3: before the shuffle the k-th read is named "S_k" and the counter is
\* one more than the number of reads, so a skipping pass uses no number.
C3_IdsCountGenerationOrder ==
    pc \in {"loop", "shuffle"} =>
        /\ read_id = Len(reads) + 1
        /\ \A k \in 1..Len(reads) : reads[k][1] = <<"S", "_">> \o Str(k)
        /\ \A i, j \in 1..Len(reads) : i < j => reads[i][1] /= reads[j][1]

\* two reads were emitted, the first after a skipping pass
C3_Witness ==
    /\ pc = "shuffle"
    /\ Len(reads) >= 2
    /\ reads[1][2] > 0

\* C4: with depth >= 1 and (read_length - length_variation) // depth >= 1
\* at the call, the loop ends whatever the draws are.
C4_LoopTerminates ==
    (/\ pc = "loop"
     /\ depth >= 1
     /\ FloorDiv(read_length_arg - length_variation, depth) >= 1)
        ~> (pc /= "loop" \/ BeyondBounds)

\* C5: with (read_length - length_variation) // depth = 0 at the call, no
\* pass of the loop body runs: the call raises InvalidParameters instead.
C5_ZeroStepParametersRaise ==
    [][(/\ pc = "loop"
        /\ current_index < total_length
        /\ depth >= 1
        /\ FloorDiv(read_length_arg - length_variation, depth) = 0)
          => (raised' = "InvalidParameters" /\ pc' = "raised")]_vars

\* C6: a sequence shorter than read_length - length_variation at the call
\* gives an empty read list when the loop finishes.
C6_ShortSequenceGivesNoReads ==
    (/\ pc \in {"shuffle", "returned", "sorted"}
     /\ total_length < read_length_arg - length_variation)
        => reads = << >>

\* C7: the start offset of every emitted read is non-negative.
C7_StartOffsetNonNegative ==
    \A r \in InReads(reads) : r[2] >= 0

\* C8: sorting a shuffled list of the reads S_1..S_n by custom_sort puts
\* read number i at position i, so each L line joins reads i and i + 1.
C8_SortRestoresGenerationOrder ==
    pc = "sorted" =>
        /\ Len(sorted_reads) = Len(simulated_reads)
        /\ \A i \in 1..Len(sorted_reads) :
              sorted_reads[i][1] = <<"S", "_">> \o Str(i)
        /\ \A i \in DOMAIN GfaLinks(sorted_reads) :
              /\ GfaLinks(sorted_reads)[i][1][1] = <<"S", "_">> \o Str(i)
              /\ GfaLinks(sorted_reads)[i][2][1] = <<"S", "_">> \o Str(i + 1)

\* a shuffled list with two-digit read numbers was sorted
C8_Witness ==
    /\ pc = "sorted"
    /\ Len(sorted_reads) >= 10
    /\ simulated_reads /= sorted_reads
    /\ \E i \in 1..Len(simulated_reads) :
          /\ i < Len(simulated_reads)
          /\ Len(simulated_reads[i][1]) > Len(simulated_reads[i + 1][1])

\* C9: the shuffle and the sort change only the order: the list after each
\* holds the same tuples as the list before, and the sort leaves the
\* returned list alone.
C9_OrderingOnlyReorders ==
    [][/\ pc = "shuffle" =>
            (SameReads(reads, reads') /\ simulated_reads' = reads')
       /\ pc = "returned" =>
            (/\ SameReads(simulated_reads, sorted_reads')
             /\ simulated_reads' = simulated_reads)]_vars

\* reads with content were shuffled out of order and sorted back
C9_Witness ==
    /\ pc = "sorted"
    /\ Len(sorted_reads) >= 2
    /\ sorted_reads /= simulated_reads
    /\ \E r \in InReads(sorted_reads) : Len(r[3]) > 0

\* C10: the first draw is centred on the read_length argument, every draw
\* is within length_variation of the length drawn before it, and the cursor
\* moves by the drawn length // depth.
C10_DrawsCompound ==
    /\ read_length = read_length_arg
    /\ [][(pc = "loop" /\ current_index < total_length) =>
            /\ read_length' >= read_length - length_variation
            /\ read_length' <= read_length + length_variation
            /\ depth >= 1 =>
                  current_index' = current_index
                                     + FloorDiv(read_length', depth)]_vars

\* the running length has left the window around the argument, and the
\* cursor has moved
C10_Witness ==
    /\ pc = "loop"
    /\ current_index > 0
    /\ \/ read_length > read_length_arg + length_variation
       \/ read_length < read_length_arg - length_variation

====
